---- MODULE Spec2Model ----
(***************************************************************************)
(* Model of crates/gobley-uniffi-bindgen/src/lib.rs: the Kotlin binding    *)
(* generator's configuration resolver (new_config), cross-component linker *)
(* (update_component_configs) and file-tree writer (write_bindings,        *)
(* write_bindings_target, write_cinterop).                                 *)
(*                                                                         *)
(* A string the program takes apart or puts together (a package name, a    *)
(* namespace, a file name) is a sequence of one-character strings; a path  *)
(* is the sequence of its components.  Option<T> is a sequence of length   *)
(* 0 (None) or 1 (Some).  A HashMap is a function on its key set.          *)
(***************************************************************************)
EXTENDS Naturals, Sequences, FiniteSets, TLC

VARIABLES generator,    \* the KotlinBindingGenerator: [force_multiplatform]
          root_toml,    \* the document handed to new_config
          config,       \* Option<Result<Config>>: what new_config returned
          phase,        \* which call of the BindingGenerator trait is running
          settings,     \* GenerationSettings: [out_dir, try_format_code, cdylib]
          components,   \* Vec<Component<Config>>: [ci: [namespace, crate_name], config]
          orig,         \* history: the components as new_config left them
          packages,     \* update_component_configs' crate -> package HashMap
          link_i,       \* update_component_configs: index of `c` in the second loop
          pending,      \* ... and the keys of `packages` its inner loop has yet to visit
          files,        \* the file system under out_dir: path -> content
          written,      \* history: the writes so far, [of, ci, config, field, path]
          last,         \* the last write_bindings_target call: [path, fmt, warned]
          write_i,      \* write_bindings: index of the component of the loop
          bindings,     \* write_bindings: Option of generate_bindings' bundle
          slot,         \* write_bindings: the field of the bundle reached
          result        \* Option<Result<()>>: what the trait call returned

configVars == <<generator, root_toml, config>>
linkVars == <<settings, components, orig, packages, link_i, pending>>
writeVars == <<files, written, last, write_i, bindings, slot, result>>
vars == <<generator, root_toml, config, phase, settings, components, orig,
          packages, link_i, pending, files, written, last, write_i, bindings,
          slot, result>>

---------------------------------------------------------------------------
(* Option and Result *)

None == <<>>
Some(v) == <<v>>
is_some(o) == Len(o) = 1
is_none(o) == Len(o) = 0
unwrap(o) == o[1]
unwrap_or(o, d) == IF is_some(o) THEN o[1] ELSE d

Ok(v) == [ok |-> TRUE, val |-> v]
Err(e) == [ok |-> FALSE, err |-> e]

---------------------------------------------------------------------------
(* toml::Value: a tagged value, its payload in a field named after the    *)
(* variant; a table is a record of Option<Value>, one field per key the    *)
(* model's documents may hold.                                             *)

TString(s) == [type |-> "string", str |-> s]
TBoolean(b) == [type |-> "boolean", bool |-> b]
TArray(a) == [type |-> "array", arr |-> a]
TTable(t) == [type |-> "table", tab |-> t]

\* toml::Value::get with a string index: None unless the value is a table
\* holding the key.
get(v, key) ==
  IF v.type = "table" /\ key \in DOMAIN v.tab THEN v.tab[key] ELSE None

---------------------------------------------------------------------------
(* The documents the model draws from. *)

PkgNested == <<"c", ".", "n">>
PkgRoot == <<"c", ".", "r">>

PackageNameValues == {None, Some(TString(PkgNested)), Some(TString(PkgRoot))}
MultiplatformValues ==
  {None, Some(TBoolean(TRUE)), Some(TBoolean(FALSE)), Some(TString(<<"y">>))}
TargetsValues ==
  {None, Some(TArray(<<>>)), Some(TArray(<<"jvm">>)),
   Some(TArray(<<"native", "jvm">>)), Some(TArray(<<"jvm", "jvm">>))}
ExternalPackagesValues ==
  {None, Some(TTable([k \in {"c2"} |-> <<"e", ".", "x">>]))}

KotlinTables ==
  [package_name : PackageNameValues,
   kotlin_multiplatform : MultiplatformValues,
   kotlin_targets : TargetsValues,
   external_packages : ExternalPackagesValues]

\* What the root's "bindings" key may hold: nothing, a non-table value, a
\* table without "kotlin", a table whose "kotlin" is a table, or a table
\* whose "kotlin" is not a table.
BindingsValues ==
  {None, Some(TString(<<"x">>)), Some(TTable([kotlin |-> None])),
   Some(TTable([kotlin |-> Some(TString(<<"x">>))]))}
  \cup {Some(TTable([kotlin |-> Some(TTable(t))])) : t \in KotlinTables}

RootTables ==
  [package_name : PackageNameValues,
   kotlin_multiplatform : MultiplatformValues,
   kotlin_targets : TargetsValues,
   external_packages : ExternalPackagesValues,
   bindings : BindingsValues]

---------------------------------------------------------------------------
(* gen_kotlin_multiplatform::Config and its deserialisation *)

\* ConfigKotlinTarget, deserialised from its lower-case name.
ConfigKotlinTarget == {"Jvm", "Android", "Native", "Stub"}
target_of_string(s) ==
  CASE s = "jvm" -> "Jvm"
    [] s = "android" -> "Android"
    [] s = "native" -> "Native"
    [] s = "stub" -> "Stub"

has_type(o, type) == is_none(o) \/ unwrap(o).type = type

\* `kotlin_config.clone().try_into()`: serde's derived Deserialize for
\* Config.  An absent key takes the field's default, an unrecognised key is
\* ignored, a recognised key of the wrong type is an error.
try_into_config(v) ==
  IF v.type # "table" THEN Err("expected table")
  ELSE IF ~has_type(get(v, "package_name"), "string")
    THEN Err("package_name")
  ELSE IF ~has_type(get(v, "kotlin_multiplatform"), "boolean")
    THEN Err("kotlin_multiplatform")
  ELSE IF ~has_type(get(v, "kotlin_targets"), "array")
    THEN Err("kotlin_targets")
  ELSE IF ~has_type(get(v, "external_packages"), "table")
    THEN Err("external_packages")
  ELSE
    LET pn == get(v, "package_name")
        kmp == get(v, "kotlin_multiplatform")
        kt == get(v, "kotlin_targets")
        ep == get(v, "external_packages")
    IN Ok([package_name |-> IF is_some(pn) THEN Some(unwrap(pn).str) ELSE None,
           cdylib_name |-> None,
           kotlin_multiplatform |-> IF is_some(kmp) THEN unwrap(kmp).bool ELSE FALSE,
           kotlin_targets |->
             IF is_some(kt)
             THEN [i \in 1..Len(unwrap(kt).arr) |-> target_of_string(unwrap(kt).arr[i])]
             ELSE <<>>,
           external_packages |-> IF is_some(ep) THEN unwrap(ep).tab ELSE <<>>])

---------------------------------------------------------------------------
(* KotlinBindingGenerator *)

\* KotlinBindingGenerator::default / new
new == [force_multiplatform |-> FALSE]

\* KotlinBindingGenerator::with_multiplatform
with_multiplatform(self, enabled) == [self EXCEPT !.force_multiplatform = enabled]

DefaultTargets == <<"Jvm", "Android", "Native">>

\* Mutant of kotlin_config: the nested path is ignored.
kotlin_config_root_only(root) == root

\* The sub-tree new_config deserialises: root.bindings.kotlin when the path
\* exists, the root otherwise.
kotlin_config(root) ==
  LET b == get(root, "bindings")
      k == IF is_some(b) THEN get(unwrap(b), "kotlin") ELSE None
  IN unwrap_or(k, root)

\* Mutant of apply_force: the default targets replace the document's list.
apply_force_replacing(self, cfg) ==
  IF self.force_multiplatform
  THEN [cfg EXCEPT !.kotlin_multiplatform = TRUE,
                   !.kotlin_targets = DefaultTargets]
  ELSE cfg

\* The CLI override of new_config.
apply_force(self, cfg) ==
  IF self.force_multiplatform
  THEN [cfg EXCEPT !.kotlin_multiplatform = TRUE,
                   !.kotlin_targets =
                     IF cfg.kotlin_targets = <<>> THEN DefaultTargets ELSE @]
  ELSE cfg

\* BindingGenerator::new_config
new_config(self, root) ==
  LET r == try_into_config(kotlin_config(root))
  IN IF r.ok THEN Ok(apply_force(self, r.val)) ELSE r

---------------------------------------------------------------------------
(* The configuration resolver as a state machine: a generator is built,    *)
(* the CLI may set its flag, and new_config resolves one document.         *)

NoSettings == [out_dir |-> <<>>, try_format_code |-> FALSE, cdylib |-> None]

LinkIdle ==
  /\ settings = NoSettings
  /\ components = <<>>
  /\ orig = <<>>
  /\ packages = <<>>
  /\ link_i = 0
  /\ pending = {}

WriteIdle ==
  /\ files = <<>>
  /\ written = <<>>
  /\ last = None
  /\ write_i = 0
  /\ bindings = None
  /\ slot = 0
  /\ result = None

InitConfig ==
  /\ WriteIdle
  /\ generator = new
  /\ root_toml \in {TTable(t) : t \in RootTables}
  /\ config = None
  /\ phase = "built"
  /\ LinkIdle

WithMultiplatform(enabled) ==
  /\ phase = "built"
  /\ generator' = with_multiplatform(generator, enabled)
  /\ phase' = "flagged"
  /\ UNCHANGED <<root_toml, config>>
  /\ UNCHANGED linkVars
  /\ UNCHANGED writeVars

NewConfig ==
  /\ phase \in {"built", "flagged"}
  /\ config' = Some(new_config(generator, root_toml))
  /\ phase' = "configured"
  /\ UNCHANGED <<generator, root_toml>>
  /\ UNCHANGED linkVars
  /\ UNCHANGED writeVars

NextConfig ==
  \/ \E enabled \in BOOLEAN : WithMultiplatform(enabled)
  \/ NewConfig

SpecConfig == InitConfig /\ [][NextConfig]_vars

---------------------------------------------------------------------------
(* Config::package_name and the names update_component_configs fills in *)

Uniffi == <<"u", "n", "i", "f", "f", "i">>

\* Config::package_name(&self): the explicit name when set.  The method
\* sees the Config alone, which new_config builds from the document, so its
\* fallback cannot name the component's namespace.
package_name(cfg) ==
  IF is_some(cfg.package_name) THEN unwrap(cfg.package_name) ELSE Uniffi

\* Mutant of default_package_name: the namespace is left out.
default_package_name_bare(ci) == Uniffi

\* format!("uniffi.{}", c.ci.namespace())
default_package_name(ci) == Uniffi \o <<".">> \o ci.namespace

\* settings.cdylib.clone().unwrap_or_else(|| format!("uniffi_{}", c.ci.namespace()))
default_cdylib_name(s, ci) == unwrap_or(s.cdylib, Uniffi \o <<"_">> \o ci.namespace)

\* Option::get_or_insert_with
get_or_insert_with(o, v) == IF is_some(o) THEN o ELSE Some(v)

\* The body of update_component_configs' first loop.
resolve_names(s, c) ==
  [c EXCEPT !.config.package_name = get_or_insert_with(@, default_package_name(c.ci)),
            !.config.cdylib_name = get_or_insert_with(@, default_cdylib_name(s, c.ci))]

\* HashMap::from_iter over (crate_name, package_name()) in list order: a
\* later pair replaces an earlier one with the same key.
build_packages(comps) ==
  [k \in {comps[i].ci.crate_name : i \in DOMAIN comps} |->
     LET idx == CHOOSE i \in DOMAIN comps :
                   /\ comps[i].ci.crate_name = k
                   /\ \A j \in DOMAIN comps : comps[j].ci.crate_name = k => j <= i
     IN package_name(comps[idx].config)]

\* Mutant of should_insert: an existing entry is replaced.
should_insert_overwriting(c, ext_crate) == ext_crate # c.ci.crate_name

\* Mutant of should_insert: a component maps itself too.
should_insert_self(c, ext_crate) ==
  ext_crate \notin DOMAIN c.config.external_packages

\* Mutant of should_insert: only the first crate visited is inserted.
should_insert_first(c, ext_crate) ==
  /\ ext_crate # c.ci.crate_name
  /\ DOMAIN c.config.external_packages = {}

\* The condition of the second loop's insert.
should_insert(c, ext_crate) ==
  /\ ext_crate # c.ci.crate_name
  /\ ext_crate \notin DOMAIN c.config.external_packages

\* HashMap::insert
insert(m, k, v) == [x \in DOMAIN m \cup {k} |-> IF x = k THEN v ELSE m[x]]

\* The body of the second loop's inner loop, for one (ext_crate, ext_package).
link_entry(c, pk, ext_crate) ==
  IF should_insert(c, ext_crate)
  THEN [c EXCEPT !.config.external_packages = insert(@, ext_crate, pk[ext_crate])]
  ELSE c

---------------------------------------------------------------------------
(* The cross-component linker as a state machine.  The second loop visits  *)
(* the components in list order and, for each, the entries of `packages`   *)
(* in the HashMap's iteration order, which is any order.                   *)

MaxComponents == 2

Crates == <<"c1", "c2", "c3", "c4">>
Namespaces == {<<"a">>, <<"b">>}
PkgUser == <<"e", ".", "x">>
Cdylib == <<"l">>

\* The external_packages a document may supply in a build of n components:
\* none, or one entry for a crate of the build.
ExternalPackages(n) == {<<>>} \cup {[k \in {Crates[j]} |-> PkgUser] : j \in 1..n}

LinkConfigs(n) ==
  [package_name : {None, Some(PkgNested)},
   cdylib_name : {None},
   kotlin_multiplatform : {FALSE},
   kotlin_targets : {<<>>},
   external_packages : ExternalPackages(n)]

\* Builds of n components: the loader keys components by crate name, so
\* crate names are pairwise distinct; namespaces need not be.
Builds(n) ==
  {b \in [1..n -> [ci : [namespace : Namespaces, crate_name : {Crates[j] : j \in 1..n}],
                   config : LinkConfigs(n)]] :
     \A i \in 1..n : b[i].ci.crate_name = Crates[i]}

ConfigIdle ==
  /\ generator = new
  /\ root_toml = None
  /\ config = None

InitLink ==
  /\ ConfigIdle
  /\ WriteIdle
  /\ phase = "configured"
  /\ settings \in [out_dir : {<<>>}, try_format_code : {FALSE},
                   cdylib : {None, Some(Cdylib)}]
  /\ \E n \in 1..MaxComponents : components \in Builds(n)
  /\ orig = components
  /\ packages = <<>>
  /\ link_i = 0
  /\ pending = {}

\* update_component_configs up to the second loop: the first loop and the
\* construction of `packages`.
UpdateComponentConfigsNames ==
  /\ phase = "configured"
  /\ LET named == [i \in DOMAIN components |-> resolve_names(settings, components[i])]
     IN /\ components' = named
        /\ packages' = build_packages(named)
        /\ pending' = DOMAIN build_packages(named)
  /\ link_i' = 1
  /\ phase' = "linking"
  /\ UNCHANGED <<settings, orig>>
  /\ UNCHANGED configVars
  /\ UNCHANGED writeVars

\* One iteration of the inner loop for components[link_i]; after the last
\* one the outer loop moves on, or update_component_configs returns Ok.
UpdateComponentConfigsEntry(ext_crate) ==
  /\ phase = "linking"
  /\ ext_crate \in pending
  /\ components' = [components EXCEPT ![link_i] = link_entry(@, packages, ext_crate)]
  /\ IF pending # {ext_crate}
     THEN /\ pending' = pending \ {ext_crate}
          /\ UNCHANGED <<link_i, phase, result>>
     ELSE IF link_i < Len(components)
     THEN /\ pending' = DOMAIN packages
          /\ link_i' = link_i + 1
          /\ UNCHANGED <<phase, result>>
     ELSE /\ pending' = {}
          /\ link_i' = link_i + 1
          /\ phase' = "linked"
          /\ result' = Some(Ok(<<>>))
  /\ UNCHANGED <<settings, orig, packages>>
  /\ UNCHANGED configVars
  /\ UNCHANGED <<files, written, last, write_i, bindings, slot>>

NextLink ==
  \/ UpdateComponentConfigsNames
  \/ \E ext_crate \in DOMAIN packages : UpdateComponentConfigsEntry(ext_crate)

SpecLink == InitLink /\ [][NextLink]_vars

---------------------------------------------------------------------------
(* update_component_configs as one call.  The inner loop's order is fixed  *)
(* here by CHOOSE; UpdateComponentConfigsEntry above takes every order.    *)

RECURSIVE link_all(_, _, _)
link_all(c, pk, keys) ==
  IF keys = {} THEN c
  ELSE LET k == CHOOSE x \in keys : TRUE
       IN link_all(link_entry(c, pk, k), pk, keys \ {k})

\* BindingGenerator::update_component_configs
update_component_configs(s, comps) ==
  LET named == [i \in DOMAIN comps |-> resolve_names(s, comps[i])]
      pk == build_packages(named)
  IN [i \in DOMAIN comps |-> link_all(named[i], pk, DOMAIN pk)]

---------------------------------------------------------------------------
(* Destination paths *)

StrCommon == <<"c", "o", "m", "m", "o", "n">>
StrJvm == <<"j", "v", "m">>
StrAndroid == <<"a", "n", "d", "r", "o", "i", "d">>
StrNative == <<"n", "a", "t", "i", "v", "e">>
StrStub == <<"s", "t", "u", "b">>
StrMain == <<"m", "a", "i", "n">>
StrKotlin == <<"k", "o", "t", "l", "i", "n">>

\* The fields of MultiplatformBindings in the order write_bindings takes
\* them, and the `target` string each source variant is written under.
Fields == <<"common", "jvm", "android", "native", "stub", "header">>
SourceFields == {1, 2, 3, 4, 5}
HeaderField == 6
target_str(f) ==
  CASE f = 1 -> StrCommon
    [] f = 2 -> StrJvm
    [] f = 3 -> StrAndroid
    [] f = 4 -> StrNative
    [] f = 5 -> StrStub

\* str::split(sep): the pieces between separators, empty ones included.
RECURSIVE split(_, _)
split(s, sep) ==
  IF \A i \in 1..Len(s) : s[i] # sep THEN <<s>>
  ELSE LET i == CHOOSE x \in 1..Len(s) :
                  s[x] = sep /\ \A y \in 1..(x - 1) : s[y] # sep
       IN <<SubSeq(s, 1, i - 1)>> \o split(SubSeq(s, i + 1, Len(s)), sep)

non_empty(seg) == seg # <<>>

\* Utf8PathBuf::join / collect of relative pieces: a path is its sequence
\* of components, and an empty piece adds none.
join(base, pieces) == base \o SelectSeq(pieces, non_empty)

\* Mutant of source_set_name: the variant is always in the name.
source_set_name_per_target(cfg, target) == target \o <<"M", "a", "i", "n">>

\* let source_set_name = ...
source_set_name(cfg, target) ==
  IF cfg.kotlin_multiplatform THEN target \o <<"M", "a", "i", "n">> ELSE StrMain

\* let package_path: Utf8PathBuf = config.package_name().split('.').collect();
package_path(cfg) == join(<<>>, split(package_name(cfg), "."))

\* Mutant of file_name: the variant is left out of the name.
file_name_no_target(ci, target) == ci.namespace \o <<".", "k", "t">>

\* let file_name = format!("{}.{}.kt", ci.namespace(), target);
file_name(ci, target) == ci.namespace \o <<".">> \o target \o <<".", "k", "t">>

\* let dest_dir = ...
dest_dir(ci, s, cfg, target) ==
  join(join(join(s.out_dir, <<source_set_name(cfg, target)>>), <<StrKotlin>>),
       package_path(cfg))

\* let file_path = ...
file_path(ci, s, cfg, target) == join(dest_dir(ci, s, cfg, target), <<file_name(ci, target)>>)

\* write_cinterop's file_path
cinterop_path(ci, out_dir) ==
  join(join(out_dir, <<<<"n", "a", "t", "i", "v", "e", "I", "n", "t", "e", "r", "o", "p">>,
                       <<"c", "i", "n", "t", "e", "r", "o", "p">>,
                       <<"h", "e", "a", "d", "e", "r", "s">>,
                       ci.namespace>>),
       <<ci.namespace \o <<".", "h">>>>)

---------------------------------------------------------------------------
(* write_bindings as a state machine: one step for generate_bindings, one  *)
(* for each write_bindings_target call and one for write_cinterop.         *)

\* The text generate_bindings produced for a component's variant; a file
\* that a failed write left behind holds a part of it.
Blob(i, f) == [of |-> i, variant |-> Fields[f], whole |-> TRUE]
Partial(b) == [b EXCEPT !.whole = FALSE]

\* MultiplatformBindings: `common` is a String, every other field an Option.
Bundles(i) ==
  {[f \in 1..6 |-> IF f = 1 \/ f \in present THEN Some(Blob(i, f)) ELSE None] :
     present \in SUBSET (2..6)}

\* The next field of the bundle that is Some, or 7 when the component is
\* done.
next_slot(b, f) ==
  IF \E g \in (f + 1)..6 : is_some(b[g])
  THEN CHOOSE g \in (f + 1)..6 : is_some(b[g]) /\ \A h \in (f + 1)..(g - 1) : is_none(b[h])
  ELSE 7

\* What the std::fs calls of one write may do, and what ktlint may do when
\* settings.try_format_code asks for it.
IoOutcomes == {"ok", "create_dir_failed", "write_failed"}
FormatOutcomes(s) == IF s.try_format_code THEN {"ok", "nonzero", "spawn_err"} ELSE {"none"}

\* Mutant of format_warns: a non-zero exit of ktlint warns too.
format_warns_on_exit(fmt) == fmt \in {"spawn_err", "nonzero"}

\* if let Err(e) = Command::new("ktlint")...output() { println!("Warning: ...") }
format_warns(fmt) == fmt = "spawn_err"

\* Moving on after the write of field `slot`: to the bundle's next field,
\* to the next component, or to `Ok(())`.
Advance ==
  LET nxt == next_slot(unwrap(bindings), slot)
  IN IF nxt <= 6
     THEN /\ slot' = nxt
          /\ UNCHANGED <<write_i, bindings, result, phase>>
     ELSE /\ slot' = 0
          /\ bindings' = None
          /\ write_i' = write_i + 1
          /\ IF write_i < Len(components)
             THEN UNCHANGED <<result, phase>>
             ELSE /\ result' = Some(Ok(<<>>))
                  /\ phase' = "returned"

\* An unwrap() on an std::fs error: the thread panics, write_bindings never
\* returns and its locals are gone; what was written stays written.
Panic ==
  /\ phase' = "panicked"
  /\ bindings' = None
  /\ slot' = 0
  /\ last' = None
  /\ UNCHANGED <<write_i, result, written>>

\* Mutant of GenerateBindings: the error is kept for later and the loop
\* goes on with the next component.
GenerateBindingsGoingOn ==
  /\ phase = "writing"
  /\ is_none(bindings)
  /\ \/ /\ result' = Some(Err("generate_bindings"))
        /\ write_i < Len(components)
        /\ write_i' = write_i + 1
        /\ UNCHANGED <<bindings, slot, phase>>
     \/ /\ \E b \in Bundles(write_i) : bindings' = Some(b)
        /\ slot' = 1
        /\ UNCHANGED <<result, phase, write_i>>
  /\ UNCHANGED <<files, written, last>>
  /\ UNCHANGED configVars
  /\ UNCHANGED linkVars

\* let bindings = generate_bindings(config, ci)?;
GenerateBindings ==
  /\ phase = "writing"
  /\ is_none(bindings)
  /\ \/ /\ result' = Some(Err("generate_bindings"))
        /\ phase' = "returned"
        /\ UNCHANGED <<bindings, slot>>
     \/ /\ \E b \in Bundles(write_i) : bindings' = Some(b)
        /\ slot' = 1
        /\ UNCHANGED <<result, phase>>
  /\ UNCHANGED <<files, written, last, write_i>>
  /\ UNCHANGED configVars
  /\ UNCHANGED linkVars

\* write_bindings_target(ci, settings, config, target, content), called for
\* component `i` (0: on its own) and field `f`: what it does to the files,
\* and, when it returns, the history of the call.
write_bindings_target(i, ci, cfg, f, content, io, fmt) ==
  LET path == file_path(ci, settings, cfg, target_str(f))
  IN CASE io = "create_dir_failed" ->
            /\ fmt = "none"
            /\ UNCHANGED files
       [] io = "write_failed" ->
            /\ fmt = "none"
            /\ files' = insert(files, path, Partial(content))
       [] io = "ok" ->
            /\ fmt \in FormatOutcomes(settings)
            /\ files' = insert(files, path, content)
            /\ written' = Append(written, [of |-> i, ci |-> ci, config |-> cfg,
                                           field |-> f, path |-> path])
            /\ last' = Some([path |-> path, fmt |-> fmt, warned |-> format_warns(fmt)])

\* write_bindings' calls of write_bindings_target, for `common` and for
\* each source variant that is Some.
WriteBindingsTarget(io, fmt) ==
  /\ phase = "writing"
  /\ is_some(bindings)
  /\ slot \in SourceFields
  /\ write_bindings_target(write_i, components[write_i].ci, components[write_i].config,
                           slot, unwrap(unwrap(bindings)[slot]), io, fmt)
  /\ IF io = "ok" THEN Advance ELSE Panic
  /\ UNCHANGED configVars
  /\ UNCHANGED linkVars

\* write_cinterop(ci, &settings.out_dir, header)
WriteCinterop(io) ==
  /\ phase = "writing"
  /\ is_some(bindings)
  /\ slot = HeaderField
  /\ LET c == components[write_i]
         path == cinterop_path(c.ci, settings.out_dir)
         content == unwrap(unwrap(bindings)[slot])
     IN CASE io = "create_dir_failed" ->
               /\ UNCHANGED files
               /\ Panic
          [] io = "write_failed" ->
               /\ files' = insert(files, path, Partial(content))
               /\ Panic
          [] io = "ok" ->
               /\ files' = insert(files, path, content)
               /\ written' = Append(written, [of |-> write_i, ci |-> c.ci, config |-> c.config,
                                              field |-> slot, path |-> path])
               /\ UNCHANGED last
               /\ Advance
  /\ UNCHANGED configVars
  /\ UNCHANGED linkVars

OutDir == <<<<"o">>>>

\* The builds write_bindings is run on: component i has the i-th crate and
\* namespace, no explicit package name and no external packages, and
\* every other component is in multi-target mode.
NamespaceList == <<<<"a">>, <<"b">>, <<"a", "b">>, <<"b", "a">>>>

WriteBuilds(n) ==
  {[i \in 1..n |->
      [ci |-> [namespace |-> NamespaceList[i], crate_name |-> Crates[i]],
       config |-> [package_name |-> None,
                   cdylib_name |-> None,
                   kotlin_multiplatform |-> (i % 2 = 1),
                   kotlin_targets |-> <<>>,
                   external_packages |-> <<>>]]]}

\* write_bindings is called on the components update_component_configs
\* has linked.
InitWrite ==
  /\ ConfigIdle
  /\ phase = "writing"
  /\ settings \in [out_dir : {OutDir}, try_format_code : BOOLEAN, cdylib : {None}]
  /\ \E n \in 1..MaxComponents : orig \in WriteBuilds(n)
  /\ components = update_component_configs(settings, orig)
  /\ packages = build_packages(components)
  /\ link_i = Len(components) + 1
  /\ pending = {}
  /\ files = <<>>
  /\ written = <<>>
  /\ last = None
  /\ write_i = 1
  /\ bindings = None
  /\ slot = 0
  /\ result = None

NextWrite ==
  \/ GenerateBindings
  \/ \E io \in IoOutcomes, fmt \in {"none", "ok", "nonzero", "spawn_err"} :
       WriteBindingsTarget(io, fmt)
  \/ \E io \in IoOutcomes : WriteCinterop(io)

SpecWrite == InitWrite /\ [][NextWrite]_vars

---------------------------------------------------------------------------
(* write_bindings_target on its own: a bounded number of calls under one   *)
(* GenerationSettings, each for any component interface, linked config and *)
(* source variant.  Every run of write_bindings makes such calls.          *)

MaxCalls == 2

TargetInterfaces == [namespace : Namespaces, crate_name : {Crates[1]}]

TargetConfigs ==
  [package_name : {Some(PkgNested), Some(<<"c">>)},
   cdylib_name : {Some(Cdylib)},
   kotlin_multiplatform : BOOLEAN,
   kotlin_targets : {<<>>},
   external_packages : {<<>>}]

InitTarget ==
  /\ ConfigIdle
  /\ phase = "target"
  /\ settings \in [out_dir : {OutDir}, try_format_code : BOOLEAN, cdylib : {None}]
  /\ components = <<>>
  /\ orig = <<>>
  /\ packages = <<>>
  /\ link_i = 0
  /\ pending = {}
  /\ WriteIdle

CallWriteBindingsTarget(ci, cfg, f, io, fmt) ==
  /\ phase = "target"
  /\ Len(written) < MaxCalls
  /\ write_bindings_target(0, ci, cfg, f, Blob(0, f), io, fmt)
  /\ IF io = "ok"
     THEN UNCHANGED <<phase, write_i, bindings, slot, result>>
     ELSE Panic
  /\ UNCHANGED configVars
  /\ UNCHANGED linkVars

NextTarget ==
  \E ci \in TargetInterfaces, cfg \in TargetConfigs, f \in SourceFields,
     io \in IoOutcomes, fmt \in {"none", "ok", "nonzero", "spawn_err"} :
    CallWriteBindingsTarget(ci, cfg, f, io, fmt)

SpecTarget == InitTarget /\ [][NextTarget]_vars

---------------------------------------------------------------------------
(* Properties of the configuration resolver (SpecConfig) *)

\* The document has a value at bindings.kotlin.
HasNestedKotlin ==
  LET b == root_toml.tab.bindings
  IN /\ is_some(b)
     /\ unwrap(b).type = "table"
     /\ is_some(unwrap(b).tab.kotlin)

\* The one sub-tree the document's shape selects.
ConfigSource ==
  IF HasNestedKotlin THEN unwrap(unwrap(root_toml.tab.bindings).tab.kotlin)
  ELSE root_toml

\* The target list a table holds, as ConfigKotlinTargets.
DocTargets(t) ==
  IF is_some(t.tab.kotlin_targets)
  THEN [i \in 1..Len(unwrap(t.tab.kotlin_targets).arr) |->
          target_of_string(unwrap(t.tab.kotlin_targets).arr[i])]
  ELSE <<>>

DocMultiplatform(t) ==
  IF is_some(t.tab.kotlin_multiplatform) THEN unwrap(t.tab.kotlin_multiplatform).bool
  ELSE FALSE

\* Every field of cfg is the one table t holds (or the field's default),
\* the two fields the CLI flag overrides aside when it is set.
FieldsFrom(t, cfg) ==
  /\ cfg.package_name =
       IF is_some(t.tab.package_name) THEN Some(unwrap(t.tab.package_name).str) ELSE None
  /\ cfg.external_packages =
       IF is_some(t.tab.external_packages) THEN unwrap(t.tab.external_packages).tab ELSE <<>>
  /\ ~generator.force_multiplatform => cfg.kotlin_multiplatform = DocMultiplatform(t)
  /\ (~generator.force_multiplatform \/ DocTargets(t) # <<>>) =>
       cfg.kotlin_targets = DocTargets(t)

\* The only ill-typed values of the model's documents: a bindings.kotlin
\* that is no table, and a kotlin_multiplatform that is no boolean.
WellTyped(t) ==
  /\ t.type = "table"
  /\ is_some(t.tab.kotlin_multiplatform) => unwrap(t.tab.kotlin_multiplatform).type = "boolean"

\* C1: new_config reads one source per document.  When the document has a
\* value at bindings.kotlin, new_config succeeds exactly when that value is
\* a well-typed table and every field of the config is the one that table
\* holds, whatever the root-level keys say; only when bindings.kotlin is
\* absent do the root-level keys decide.
C1_ShapePrecedence ==
  phase = "configured" =>
    /\ unwrap(config).ok <=> WellTyped(ConfigSource)
    /\ unwrap(config).ok => FieldsFrom(ConfigSource, unwrap(config).val)

\* C1's case: a nested table and root-level keys that disagree with it.
C1_Witness ==
  /\ phase = "configured"
  /\ HasNestedKotlin
  /\ unwrap(config).ok
  /\ is_some(root_toml.tab.package_name)
  /\ is_some(root_toml.tab.kotlin_targets)
  /\ unwrap(config).val.package_name = Some(PkgNested)
  /\ root_toml.tab.package_name = Some(TString(PkgRoot))
  /\ DocTargets(root_toml) # unwrap(config).val.kotlin_targets
  /\ DocTargets(root_toml) # <<>>

\* C2: with force_multiplatform set, the config new_config returns has
\* kotlin_multiplatform true whatever the document said, and its target
\* list is the document's own list when that is non-empty, and otherwise
\* holds Jvm, Android and Native once each and nothing else.
C2_ForceMultiplatform ==
  (phase = "configured" /\ generator.force_multiplatform /\ unwrap(config).ok) =>
    LET cfg == unwrap(config).val
        doc == DocTargets(ConfigSource)
    IN /\ cfg.kotlin_multiplatform = TRUE
       /\ IF doc # <<>>
          THEN cfg.kotlin_targets = doc
          ELSE /\ Len(cfg.kotlin_targets) = 3
               /\ \A t \in {"Jvm", "Android", "Native"} :
                    Cardinality({i \in 1..3 : cfg.kotlin_targets[i] = t}) = 1

\* C2's case: the flag forces a document that disabled multi-target mode
\* and names no target.
C2_Witness ==
  /\ phase = "configured"
  /\ generator.force_multiplatform
  /\ unwrap(config).ok
  /\ ConfigSource.tab.kotlin_multiplatform = Some(TBoolean(FALSE))
  /\ DocTargets(ConfigSource) = <<>>
  /\ Len(unwrap(config).val.kotlin_targets) = 3

---------------------------------------------------------------------------
(* Properties of the cross-component linker (SpecLink) *)

Linked == phase = "linked"
ExternalOf(c) == c.config.external_packages

\* The package name component j resolves to: the explicit one when the
\* document set it, "uniffi.<namespace>" otherwise.
Resolved(j) ==
  IF is_some(orig[j].config.package_name) THEN unwrap(orig[j].config.package_name)
  ELSE <<"u", "n", "i", "f", "f", "i", ".">> \o orig[j].ci.namespace

\* C3: update_component_configs never overwrites an external_packages
\* entry: whatever a component's map held for a crate name before linking,
\* it holds for it at every later point, whatever that crate's component
\* resolves to.
C3_NoOverwrite ==
  \A i \in DOMAIN orig :
    \A k \in DOMAIN ExternalOf(orig[i]) :
      /\ k \in DOMAIN ExternalOf(components[i])
      /\ ExternalOf(components[i])[k] = ExternalOf(orig[i])[k]

\* C3's case: linking is over and A held an entry for B's crate that is
\* not B's package name.
C3_Witness ==
  /\ Linked
  /\ \E a \in DOMAIN orig, b \in DOMAIN orig :
       /\ a # b
       /\ orig[b].ci.crate_name \in DOMAIN ExternalOf(orig[a])
       /\ ExternalOf(components[a])[orig[b].ci.crate_name] # Resolved(b)

\* C4: after update_component_configs on N components whose
\* external_packages were all empty, every component's map has exactly
\* N-1 entries: one per other component's crate name, none for its own,
\* each the other component's resolved package name.
C4_Completeness ==
  (Linked /\ \A i \in DOMAIN orig : DOMAIN ExternalOf(orig[i]) = {}) =>
    \A i \in DOMAIN components :
      LET m == ExternalOf(components[i])
      IN /\ Cardinality(DOMAIN m) = Len(components) - 1
         /\ DOMAIN m = {orig[j].ci.crate_name : j \in DOMAIN orig \ {i}}
         /\ orig[i].ci.crate_name \notin DOMAIN m
         /\ \A j \in DOMAIN orig \ {i} : m[orig[j].ci.crate_name] = Resolved(j)

\* C4's case: several components, no explicit entries, explicit and
\* defaulted package names.
C4_Witness ==
  /\ Linked
  /\ Len(components) >= 2
  /\ \A i \in DOMAIN orig : DOMAIN ExternalOf(orig[i]) = {}
  /\ \E i \in DOMAIN orig : is_none(orig[i].config.package_name)
  /\ \E i \in DOMAIN orig : is_some(orig[i].config.package_name)

\* What linking leaves in component i's map, read off the build as a set
\* of components: the entries it had, and for every other crate without
\* one, that crate's resolved package name.
LinkedExternal(i) ==
  LET had == ExternalOf(orig[i])
      others == {orig[j].ci.crate_name : j \in DOMAIN orig \ {i}}
  IN [k \in DOMAIN had \cup others |->
        IF k \in DOMAIN had THEN had[k]
        ELSE Resolved(CHOOSE j \in DOMAIN orig : orig[j].ci.crate_name = k)]

RECURSIVE join_dots(_)
join_dots(segs) ==
  IF segs = <<>> THEN <<>>
  ELSE IF Len(segs) = 1 THEN segs[1]
  ELSE segs[1] \o <<".">> \o join_dots(Tail(segs))

---------------------------------------------------------------------------
(* Properties of write_bindings_target's destination (SpecTarget) *)

Namespace(w) == w.ci.namespace
Directory(path) == SubSeq(path, 1, Len(path) - 1)
FileName(path) == path[Len(path)]

\* C7: no two source-file writes under one output directory with
\* different (namespace, variant) pairs go to the same path, in
\* multi-target and in single-target mode; and with multi-target mode
\* disabled two variants of one component go to the same directory, under
\* the source set `main`, as two files with different names.
C7_DistinctPaths ==
  \A x \in DOMAIN written, y \in DOMAIN written :
    /\ (Namespace(written[x]) # Namespace(written[y]) \/ written[x].field # written[y].field)
         => written[x].path # written[y].path
    /\ ( /\ written[x].ci = written[y].ci
         /\ written[x].config = written[y].config
         /\ ~written[x].config.kotlin_multiplatform
         /\ written[x].field # written[y].field )
         => /\ Directory(written[x].path) = Directory(written[y].path)
            /\ written[x].path[Len(settings.out_dir) + 1] = <<"m", "a", "i", "n">>
            /\ FileName(written[x].path) # FileName(written[y].path)

\* C7's case: the common and the jvm variant of one component written in
\* single-target mode.
C7_Witness ==
  \E x \in DOMAIN written, y \in DOMAIN written :
    /\ written[x].ci = written[y].ci
    /\ written[x].config = written[y].config
    /\ ~written[x].config.kotlin_multiplatform
    /\ Fields[written[x].field] = "common"
    /\ Fields[written[y].field] = "jvm"
    /\ written[x].path \in DOMAIN files
    /\ written[y].path \in DOMAIN files

\* The `target` string of a field, spelled out.
VariantName(f) ==
  CASE Fields[f] = "common" -> <<"c", "o", "m", "m", "o", "n">>
    [] Fields[f] = "jvm" -> <<"j", "v", "m">>
    [] Fields[f] = "android" -> <<"a", "n", "d", "r", "o", "i", "d">>
    [] Fields[f] = "native" -> <<"n", "a", "t", "i", "v", "e">>
    [] Fields[f] = "stub" -> <<"s", "t", "u", "b">>

\* C8: the destination of a source variant is
\* <out_dir>/<sourceSet>/kotlin/<package name, one directory per piece
\* between '.'s>/<namespace>.<variant>.kt, where <sourceSet> is
\* <variant>Main in multi-target mode and main otherwise; two calls with
\* the same namespace, package name, variant and flag go to the same path,
\* whatever was written before or between them.
C8_Destination ==
  /\ \A x \in DOMAIN written :
       LET w == written[x]
           p == w.path
           o == Len(settings.out_dir)
           v == VariantName(w.field)
           dirs == SubSeq(p, o + 3, Len(p) - 1)
       IN /\ Len(p) >= o + 4
          /\ SubSeq(p, 1, o) = settings.out_dir
          /\ p[o + 1] = IF w.config.kotlin_multiplatform
                        THEN v \o <<"M", "a", "i", "n">>
                        ELSE <<"m", "a", "i", "n">>
          /\ p[o + 2] = <<"k", "o", "t", "l", "i", "n">>
          /\ join_dots(dirs) = unwrap(w.config.package_name)
          /\ \A d \in DOMAIN dirs : dirs[d] # <<>> /\ \A c \in DOMAIN dirs[d] : dirs[d][c] # "."
          /\ p[Len(p)] = Namespace(w) \o <<".">> \o v \o <<".", "k", "t">>
  /\ \A x \in DOMAIN written, y \in DOMAIN written :
       ( /\ Namespace(written[x]) = Namespace(written[y])
         /\ written[x].config.package_name = written[y].config.package_name
         /\ written[x].config.kotlin_multiplatform = written[y].config.kotlin_multiplatform
         /\ written[x].field = written[y].field )
         => written[x].path = written[y].path

\* C8's case: a multi-target write to a two-level package, after a write
\* for another namespace in single-target mode.
C8_Witness ==
  /\ Len(written) = 2
  /\ Namespace(written[1]) # Namespace(written[2])
  /\ ~written[1].config.kotlin_multiplatform
  /\ written[2].config.kotlin_multiplatform
  /\ written[2].config.package_name = Some(PkgNested)
  /\ Fields[written[2].field] = "android"

---------------------------------------------------------------------------
(* Properties of write_bindings (SpecWrite) *)

Returned(ok) == is_some(result) /\ unwrap(result).ok = ok

\* This step is a call of write_bindings_target that returned.
TargetStep ==
  /\ Len(written') = Len(written) + 1
  /\ written'[Len(written')].field \in SourceFields

\* After such a call the file holds the generated text, nothing
\* panicked, and write_bindings goes on or has returned Ok.
WriteStands ==
  LET w == written'[Len(written')]
  IN /\ w.path \in DOMAIN files'
     /\ files'[w.path] = Blob(w.of, w.field)
     /\ \A p \in DOMAIN files : p # w.path => (p \in DOMAIN files' /\ files'[p] = files[p])
     /\ phase' = "writing" \/ (phase' = "returned" /\ is_some(result') /\ unwrap(result').ok)

FormatFailed == unwrap(last').fmt \in {"spawn_err", "nonzero"}

LastWriteTo(p) ==
  CHOOSE x \in DOMAIN written :
    written[x].path = p /\ \A y \in DOMAIN written : written[y].path = p => y <= x

C10_State ==
  \* components are written in list order, none ahead of the loop
  /\ \A x \in DOMAIN written, y \in DOMAIN written :
       x <= y => written[x].of <= written[y].of
  /\ \A x \in DOMAIN written : written[x].of <= write_i
  \* after a generation failure at component write_i: nothing of it or of
  \* a later component was written, and what was written is on disk
  /\ Returned(FALSE) =>
       /\ phase = "returned"
       /\ \A x \in DOMAIN written : written[x].of < write_i
       /\ DOMAIN files = {written[x].path : x \in DOMAIN written}
       /\ \A p \in DOMAIN files :
            files[p] = Blob(written[LastWriteTo(p)].of, written[LastWriteTo(p)].field)
  \* after Ok(()): every component's common variant was written
  /\ Returned(TRUE) =>
       \A i \in DOMAIN components :
         \E x \in DOMAIN written : written[x].of = i /\ Fields[written[x].field] = "common"

C10_Step ==
  \* the failing step writes nothing, and nothing is written after it
  /\ (Returned(FALSE))' => (files' = files /\ written' = written)
  \* the step that ends a component has written every field that is Some
  /\ (is_some(bindings) /\ is_none(bindings') /\ phase' # "panicked") =>
       \A f \in 1..6 :
         is_some(unwrap(bindings)[f]) =>
           \E x \in DOMAIN written' :
             /\ written'[x].of = write_i
             /\ written'[x].field = f
             /\ files'[written'[x].path] = Blob(write_i, f)

\* C10: write_bindings takes the components in list order and returns at
\* the first generate_bindings failure: nothing is written for that
\* component or a later one, what earlier components wrote stays on disk
\* as it was, and when it returns Ok every component has had its common
\* variant and every optional variant its bundle held written.
C10_StopsAtFirstFailure == []C10_State /\ [][C10_Step]_vars

\* C10's case: generation failed for the second component after the
\* first one's files, optional ones among them, were written.
C10_Witness ==
  /\ Returned(FALSE)
  /\ write_i = 2
  /\ \E x \in DOMAIN written : written[x].of = 1 /\ Fields[written[x].field] = "stub"
  /\ \E x \in DOMAIN written : written[x].of = 1 /\ Fields[written[x].field] = "header"

====
